---- MODULE Spec2Model ----
(***************************************************************************)
(* Model of the analytics core of the Thunderbird metrics scripts:        *)
(*   - by_level, the duplicate rollup of bugzilla.py, as a state machine  *)
(*     that steps through its while/for loops;                            *)
(*   - parse_version / is_compatible of addons.py, as operators over      *)
(*     strings represented as sequences of one-character strings;         *)
(*   - parse_version / output_verion of crash_stats.py;                   *)
(*   - the enumeration of the periods in main of bugzilla.py, addons.py   *)
(*     and sumo.py, as a state machine that steps through its loop;       *)
(*   - get_period and output_period of bugzilla.py and addons.py applied  *)
(*     to pairs of dates;                                                 *)
(*   - the bucketing of the records and the per-period report loop of     *)
(*     bugzilla.py, sumo.py, addons.py, github.py, discourse.py and       *)
(*     pro_ideas.py.                                                      *)
(***************************************************************************)
EXTENDS Integers, Sequences, FiniteSets, TLC

\* ------------------------------------------------------------------------
\* Bounds of the model
\* ------------------------------------------------------------------------
\* bug ids 1..MaxId are keys of the index
MaxId == 3
\* longest "duplicates" list of a bug
MaxDups == 2
\* largest vote count of a bug
MaxVotes == 1
\* longest version string, counted in tokens (a character or "pre")
MaxTokens == 4

\* the years in which the model lets a script run
FirstNowYear == 2024
MaxNowYears == 5

\* the days of a month on which the model lets a script run: the first
\* MaxNowDay days, which hold every weekday, and the 28th
MaxNowDay == 8

\* the years of the dates given to get_period and output_period
FirstLabelYear == 2020
MaxLabelYears == 6

\* longest list of records given to a report
MaxRecords == 3

VARIABLES
    \* ---- bugzilla.py: main's index and by_level's locals ----
    items,        \* the index {bug["id"]: bug}
    root_item,    \* by_level's root_item argument
    key,          \* by_level's key argument
    seen,
    level,
    levels,
    next_level,
    level_votes,
    idx,          \* position of the for loop in level
    pc,           \* by_level's control point
    total,        \* main: item["votes"] + sum(map(sum, votes))
    \* ---- addons.py: main's version strings and compatibility test ----
    version,      \* a target version string, tb_versions[key]
    compat,       \* addon_version["compatibility"][APP]: [min, max] strings
    aversion,     \* parse_version(version), the first field of an aversions entry
    compatible,   \* the outcome of is_compatible(aversion, addon_version)
    vpc,          \* control point of the version comparison
    \* ---- crash_stats.py: output_verion's argument and locals ----
    term,         \* output_verion's version argument, version["term"]
    crash_aversion, \* output_verion's aversion
    label,        \* what output_verion returns
    cpc,          \* control point of output_verion
    \* ---- bugzilla.py, addons.py, sumo.py: main's period enumeration ----
    script,       \* the script whose main runs
    PERIOD,       \* 1 = Weekly, 2 = Monthly, 3 = Quarterly, 4 = Yearly
    now,          \* datetime.now(timezone.utc)
    year,         \* main's year, the year of the period before now
    start_date,
    date,         \* the loop's date
    dates,
    end_date,
    ppc,          \* control point of the enumeration
    crash_end_date, \* crash_stats.py: main's end_date for the same now
    \* ---- bugzilla.py, addons.py: get_period and output_period ----
    selector,     \* the value of PERIOD the two functions run under
    adate,        \* two dates that are given to the functions
    bdate,
    akey,         \* get_period of the two dates
    bkey,
    alabel,       \* output_period of the two dates
    blabel,
    lpc,          \* control point of the two calls
    \* ---- main of the report scripts: buckets and per-period rows ----
    report,        \* the script whose main is running
    records,       \* the records read from the cache (bugs, questions, ...)
    created,       \* created: period key -> records created in the period
    closed,        \* closed: period key -> records closed in the period
    closed_deltas, \* closed_deltas: period key -> durations until closing
    open_deltas,   \* ages of the open records
    open_duration, \* mean and median of open_deltas
    rec,           \* position of the loop over the records
    per,           \* position of the loop over reversed(dates)
    rows,          \* the rows of the per-period report
    mpc            \* control point of main

\* the variables of the rollup and those of the version comparison
rvars == <<items, root_item, key, seen, level, levels, next_level, level_votes, idx, pc, total>>
vvars == <<version, compat, aversion, compatible, vpc>>
cvars == <<term, crash_aversion, label, cpc>>
pvars == <<script, PERIOD, now, year, start_date, date, dates, end_date, ppc, crash_end_date>>
lvars == <<selector, adate, bdate, akey, bkey, alabel, blabel, lpc>>
mvars ==
    <<report, records, created, closed, closed_deltas, open_deltas, open_duration,
      rec, per, rows, mpc>>
vars == <<rvars, vvars, cvars, pvars, lvars, mvars>>

\* ------------------------------------------------------------------------
\* Generic helpers
\* ------------------------------------------------------------------------
RECURSIVE SumSeq(_)
SumSeq(s) == IF s = <<>> THEN 0 ELSE Head(s) + SumSeq(Tail(s))

RECURSIVE Flatten(_)
Flatten(ss) == IF ss = <<>> THEN <<>> ELSE Head(ss) \o Flatten(Tail(ss))

Range(s) == {s[i] : i \in DOMAIN s}

\* number of positions of s holding v
Count(s, v) == Cardinality({i \in DOMAIN s : s[i] = v})

\* sequences over S of length at most n without a repeated element
DistinctSeqs(S, n) ==
    {s \in UNION {[1..k -> S] : k \in 0..n} : \A i, j \in DOMAIN s : i # j => s[i] # s[j]}

\* ------------------------------------------------------------------------
\* bugzilla.py: the record index
\* ------------------------------------------------------------------------
\* ids that are keys of the index
Ids == 1..MaxId
\* an id that no record of the index has (a deleted or inaccessible bug)
DanglingId == 0
\* a duplicates list refers to indexed bugs and to bugs missing from the index
DupLists == DistinctSeqs(Ids \cup {DanglingId}, MaxDups)
\* fields of a bug that by_level can collect: main asks for "votes" (line 899);
\* with "id" the collected values tell which records were visited
Keys == {"id", "votes"}

\* main: items = {bug["id"]: bug for bug in bugs}
Index ==
    {it \in [Ids -> [id : Ids, votes : 0..MaxVotes, duplicates : DupLists]] :
        \A i \in Ids : it[i].id = i}

\* ------------------------------------------------------------------------
\* by_level(root_item, items, key)
\* ------------------------------------------------------------------------
\* [aid for aid in root_item["duplicates"] if aid in items]
InItems(aid) == aid \in DOMAIN items

\* variant: the root's list taken as it is, [aid for aid in root_item["duplicates"]]
RootLevelUnfiltered == root_item.duplicates

RootLevel == SelectSeq(root_item.duplicates, InItems)

\* variant: (cid for cid in items[aid]["duplicates"] if cid in items), without
\* the test against seen
UnseenAny(dups, s) == SelectSeq(dups, LAMBDA cid : cid \in DOMAIN items)

\* (cid for cid in items[aid]["duplicates"] if cid in items and cid not in seen),
\* evaluated with the set seen as it is after seen.add(aid)
Unseen(dups, s) == SelectSeq(dups, LAMBDA cid : cid \in DOMAIN items /\ cid \notin s)

\* ------------------------------------------------------------------------
\* addons.py: strings, as sequences of one-character strings
\* ------------------------------------------------------------------------
DigitChars == <<"0", "1", "2", "3", "4", "5", "6", "7", "8", "9">>
\* the class [0-9]
Digits == Range(DigitChars)
\* int() of one digit
DigitVal(c) == (CHOOSE i \in DOMAIN DigitChars : DigitChars[i] = c) - 1

\* int() of a non-empty string of digits
RECURSIVE int(_)
int(str) ==
    IF Len(str) = 1 THEN DigitVal(str[1])
    ELSE 10 * int(SubSeq(str, 1, Len(str) - 1)) + DigitVal(str[Len(str)])

\* number of characters that the greedy [0-9]+ or [0-9]* takes at position p
RECURSIVE DigitRun(_, _)
DigitRun(str, p) ==
    IF p <= Len(str) /\ str[p] \in Digits THEN 1 + DigitRun(str, p + 1) ELSE 0

\* ([0-9]+|\*) tried at position p: the position after the match, 0 for no match
NumberOrStar(str, p) ==
    IF p > Len(str) THEN 0
    ELSE IF str[p] \in Digits THEN p + DigitRun(str, p)
    ELSE IF str[p] = "*" THEN p + 1
    ELSE 0

\* \.([0-9]+|\*) tried at position p
DotNumberOrStar(str, p) ==
    IF p <= Len(str) /\ str[p] = "." THEN NumberOrStar(str, p + 1) ELSE 0

\* a group that took no part in the match (None in groups())
NoGroup == <<>>

\* The state of a match of VERSION_PATTERN: pos is the position of the next
\* character, groups are the groups seen so far, dots tells whether the
\* enclosing dotted group matched (its inner group is tried only then).
\* Every part after the major number is optional and the pattern is not
\* anchored at the end, so the first attempt of each greedy group decides: a
\* group is taken when it matches at the current position, skipped
\* otherwise, and the match ends where the last taken group ends.

\* ^([0-9]+|\*)
MatchMajor(str) ==
    LET e == NumberOrStar(str, 1)
    IN  [ok |-> e # 0,
         pos |-> e,
         dots |-> e # 0,
         groups |-> IF e = 0 THEN <<>> ELSE <<SubSeq(str, 1, e - 1)>>]

\* (?:\.([0-9]+|\*) ... )?
MatchDotted(str, m) ==
    LET e == IF m.dots THEN DotNumberOrStar(str, m.pos) ELSE 0
    IN  IF e = 0
        THEN [m EXCEPT !.dots = FALSE, !.groups = Append(@, NoGroup)]
        ELSE [m EXCEPT !.pos = e, !.groups = Append(@, SubSeq(str, m.pos + 1, e - 1))]

\* (?:([ab])([0-9]+)?)?
MatchAlphaBeta(str, m) ==
    LET p == m.pos
        n == DigitRun(str, p + 1)
    IN  IF p <= Len(str) /\ str[p] \in {"a", "b"}
        THEN [m EXCEPT !.pos = p + 1 + n,
                       !.groups = @ \o <<(<<str[p]>>), SubSeq(str, p + 1, p + n)>>]
        ELSE [m EXCEPT !.groups = @ \o <<NoGroup, NoGroup>>]

\* (?:(pre)([0-9])?)?
MatchPre(str, m) ==
    LET p == m.pos
    IN  IF p + 2 <= Len(str) /\ SubSeq(str, p, p + 2) = <<"p", "r", "e">>
        THEN IF p + 3 <= Len(str) /\ str[p + 3] \in Digits
             THEN [m EXCEPT !.pos = p + 4,
                            !.groups = @ \o <<(<<"p", "r", "e">>), (<<str[p + 3]>>)>>]
             ELSE [m EXCEPT !.pos = p + 3,
                            !.groups = @ \o <<(<<"p", "r", "e">>), NoGroup>>]
        ELSE [m EXCEPT !.groups = @ \o <<NoGroup, NoGroup>>]

\* VERSION_PATTERN.match(str): [ok, groups, end], end being the number of
\* characters matched
VERSION_PATTERN(str) ==
    LET major == MatchMajor(str)
    IN  IF ~major.ok
        THEN [ok |-> FALSE, groups |-> <<>>, end |-> 0]
        ELSE LET m == MatchPre(str, MatchAlphaBeta(str,
                        MatchDotted(str, MatchDotted(str, MatchDotted(str, major)))))
             IN  [ok |-> TRUE, groups |-> m.groups, end |-> m.pos - 1]

\* VERSION_PART_MAX = (1 << 16) - 1
VERSION_PART_MAX == 65535

\* Python's None
None == <<>>

\* the namedtuple Version, a tuple of 8 fields
Version(major, minor, micro, patch, alpha_beta, alpha_beta_ver, pre, pre_ver) ==
    <<major, minor, micro, patch, alpha_beta, alpha_beta_ver, pre, pre_ver>>

\* variant: the wildcard read as 0
PartValueStarZero(part) == IF part = <<"*">> THEN 0 ELSE int(part)

\* VERSION_PART_MAX if part == "*" else int(part)
PartValue(part) == IF part = <<"*">> THEN VERSION_PART_MAX ELSE int(part)

\* variant: a key without alpha or beta marker gets the marker "a"
parse_versionAlphaDefault(str) ==
    LET version_res == VERSION_PATTERN(str)
        g == version_res.groups
    IN  IF ~version_res.ok
        THEN None
        ELSE Version(PartValue(g[1]),
                     IF g[2] # NoGroup THEN PartValue(g[2]) ELSE 0,
                     IF g[3] # NoGroup THEN PartValue(g[3]) ELSE 0,
                     IF g[4] # NoGroup THEN PartValue(g[4]) ELSE 0,
                     IF g[5] # NoGroup THEN g[5][1] ELSE "a",
                     IF g[6] # NoGroup THEN int(g[6]) ELSE 0,
                     IF g[7] # NoGroup THEN "pre" ELSE "z",
                     IF g[8] # NoGroup THEN int(g[8]) ELSE 0)

\* variant: an absent minor, micro or patch read as the wildcard
parse_versionAbsentMax(str) ==
    LET version_res == VERSION_PATTERN(str)
        g == version_res.groups
    IN  IF ~version_res.ok
        THEN None
        ELSE Version(PartValue(g[1]),
                     IF g[2] # NoGroup THEN PartValue(g[2]) ELSE VERSION_PART_MAX,
                     IF g[3] # NoGroup THEN PartValue(g[3]) ELSE VERSION_PART_MAX,
                     IF g[4] # NoGroup THEN PartValue(g[4]) ELSE VERSION_PART_MAX,
                     IF g[5] # NoGroup THEN g[5][1] ELSE "z",
                     IF g[6] # NoGroup THEN int(g[6]) ELSE 0,
                     IF g[7] # NoGroup THEN "pre" ELSE "z",
                     IF g[8] # NoGroup THEN int(g[8]) ELSE 0)

parse_version(str) ==
    LET version_res == VERSION_PATTERN(str)
        g == version_res.groups
    IN  IF ~version_res.ok
        THEN None
        ELSE Version(PartValue(g[1]),
                     IF g[2] # NoGroup THEN PartValue(g[2]) ELSE 0,
                     IF g[3] # NoGroup THEN PartValue(g[3]) ELSE 0,
                     IF g[4] # NoGroup THEN PartValue(g[4]) ELSE 0,
                     IF g[5] # NoGroup THEN g[5][1] ELSE "z",
                     IF g[6] # NoGroup THEN int(g[6]) ELSE 0,
                     IF g[7] # NoGroup THEN "pre" ELSE "z",
                     IF g[8] # NoGroup THEN int(g[8]) ELSE 0)

\* order of the strings that occur in a key: "a" < "b" < "pre" < "z"
StrOrder == <<"a", "b", "pre", "z">>
StrRank(x) == CHOOSE i \in DOMAIN StrOrder : StrOrder[i] = x

\* x < y for two fields of the same position of two keys
FieldLess(x, y, i) == IF i \in {5, 7} THEN StrRank(x) < StrRank(y) ELSE x < y

\* tuple comparison: the first position where the tuples differ decides
TupleLess(x, y) ==
    \E i \in 1..8 :
        /\ \A j \in 1..(i - 1) : x[j] = y[j]
        /\ x[i] # y[i]
        /\ FieldLess(x[i], y[i], i)

\* x <= y in Python: "True", "False", or "TypeError" when an operand is None
\* ('<=' not supported between instances of 'NoneType' and 'Version')
PyLe(x, y) ==
    IF x = None \/ y = None THEN "TypeError"
    ELSE IF x = y \/ TupleLess(x, y) THEN "True"
    ELSE "False"

\* x >= y in Python
PyGe(x, y) == PyLe(y, x)

\* variant: the bounds compared with < and > in place of <= and >=
is_compatibleStrict(v, c) ==
    LET lo == parse_version(c.min)
        hi == parse_version(c.max)
    IN  IF lo = None \/ v = None THEN "TypeError"
        ELSE IF ~TupleLess(lo, v) THEN "False"
        ELSE IF hi = None THEN "TypeError"
        ELSE IF TupleLess(v, hi) THEN "True" ELSE "False"

\* is_compatible(version, addon_version), compat being
\* addon_version["compatibility"][APP]:
\* parse_version(compat["min"]) <= version and parse_version(compat["max"]) >= version
is_compatible(v, c) ==
    LET left == PyLe(parse_version(c.min), v)
    IN  IF left # "True" THEN left ELSE PyGe(parse_version(c.max), v)

\* ------------------------------------------------------------------------
\* crash_stats.py: VERSION_PATTERN, parse_version and output_verion
\* ------------------------------------------------------------------------
\* ([0-9]+) tried at position p: the position after the match, 0 for no match
Number(str, p) ==
    IF p <= Len(str) /\ str[p] \in Digits THEN p + DigitRun(str, p) ELSE 0

\* \.([0-9]+) tried at position p
DotNumber(str, p) ==
    IF p <= Len(str) /\ str[p] = "." THEN Number(str, p + 1) ELSE 0

\* ^([0-9]+)
crash_stats_MatchMajor(str) ==
    LET e == Number(str, 1)
    IN  [ok |-> e # 0,
         pos |-> e,
         dots |-> e # 0,
         groups |-> IF e = 0 THEN <<>> ELSE <<SubSeq(str, 1, e - 1)>>]

\* (?:\.([0-9]+) ... )?
crash_stats_MatchDotted(str, m) ==
    LET e == IF m.dots THEN DotNumber(str, m.pos) ELSE 0
    IN  IF e = 0
        THEN [m EXCEPT !.dots = FALSE, !.groups = Append(@, NoGroup)]
        ELSE [m EXCEPT !.pos = e, !.groups = Append(@, SubSeq(str, m.pos + 1, e - 1))]

\* crash_stats.py's VERSION_PATTERN.match(str); its alpha/beta and pre parts
\* are those of addons.py's pattern
crash_stats_VERSION_PATTERN(str) ==
    LET major == crash_stats_MatchMajor(str)
    IN  IF ~major.ok
        THEN [ok |-> FALSE, groups |-> <<>>, end |-> 0]
        ELSE LET m == MatchPre(str, MatchAlphaBeta(str,
                        crash_stats_MatchDotted(str,
                            crash_stats_MatchDotted(str,
                                crash_stats_MatchDotted(str, major)))))
             IN  [ok |-> TRUE, groups |-> m.groups, end |-> m.pos - 1]

\* Python's None in a marker field of a key, written as a string as the
\* markers are
NoMarker == "None"

\* variant: an absent marker replaced by the sentinel "z", as addons.py does
crash_stats_parse_versionSentinel(str) ==
    LET version_res == crash_stats_VERSION_PATTERN(str)
        g == version_res.groups
    IN  IF ~version_res.ok
        THEN None
        ELSE Version(int(g[1]),
                     IF g[2] # NoGroup THEN int(g[2]) ELSE 0,
                     IF g[3] # NoGroup THEN int(g[3]) ELSE 0,
                     IF g[4] # NoGroup THEN int(g[4]) ELSE 0,
                     IF g[5] # NoGroup THEN g[5][1] ELSE "z",
                     IF g[6] # NoGroup THEN int(g[6]) ELSE 0,
                     IF g[7] # NoGroup THEN "pre" ELSE "z",
                     IF g[8] # NoGroup THEN int(g[8]) ELSE 0)

\* crash_stats.py's parse_version: alpha_beta and pre are the groups
\* themselves, None when the marker is absent
crash_stats_parse_version(str) ==
    LET version_res == crash_stats_VERSION_PATTERN(str)
        g == version_res.groups
    IN  IF ~version_res.ok
        THEN None
        ELSE Version(int(g[1]),
                     IF g[2] # NoGroup THEN int(g[2]) ELSE 0,
                     IF g[3] # NoGroup THEN int(g[3]) ELSE 0,
                     IF g[4] # NoGroup THEN int(g[4]) ELSE 0,
                     IF g[5] # NoGroup THEN g[5][1] ELSE NoMarker,
                     IF g[6] # NoGroup THEN int(g[6]) ELSE 0,
                     IF g[7] # NoGroup THEN "pre" ELSE NoMarker,
                     IF g[8] # NoGroup THEN int(g[8]) ELSE 0)

\* version.endswith(suffix)
endswith(str, suffix) ==
    Len(str) >= Len(suffix) /\ SubSeq(str, Len(str) - Len(suffix) + 1, Len(str)) = suffix

\* the release of output_verion, "None" for Python's None
Release(str, v) ==
    IF v[5] # NoMarker
    THEN (IF v[5] = "a" THEN "Daily" ELSE IF v[5] = "b" THEN "Beta" ELSE "None")
    ELSE IF endswith(str, <<"e", "s", "r">>) THEN "ESR"
    ELSE "None"

\* ------------------------------------------------------------------------
\* datetime: a datetime is [year, month, day, time], time 0 being midnight
\* and 1 any later time of the day; all are in UTC
\* ------------------------------------------------------------------------
datetime(y, m, d) == [year |-> y, month |-> m, day |-> d, time |-> 0]

\* calendar.isleap
IsLeap(y) == y % 4 = 0 /\ (y % 100 # 0 \/ y % 400 = 0)

\* days of the months of a common year, and the days before each month
MonthDays == <<31, 28, 31, 30, 31, 30, 31, 31, 30, 31, 30, 31>>
DaysBefore == <<0, 31, 59, 90, 120, 151, 181, 212, 243, 273, 304, 334>>

DaysInMonth(y, m) == IF m = 2 /\ IsLeap(y) THEN 29 ELSE MonthDays[m]

\* number of days before 1 January of year y, counted from 1 January of year 1
DaysBeforeYear(y) == (y - 1) * 365 + (y - 1) \div 4 - (y - 1) \div 100 + (y - 1) \div 400

DaysBeforeMonth(y, m) == DaysBefore[m] + (IF m > 2 /\ IsLeap(y) THEN 1 ELSE 0)

\* date.toordinal(): 1 January of year 1 is day 1
toordinal(d) == DaysBeforeYear(d.year) + DaysBeforeMonth(d.year, d.month) + d.day

\* date.weekday(): Monday is 0, Sunday is 6
weekday(d) == (toordinal(d) + 6) % 7

\* d + timedelta(days=n) for -28 <= n <= 28: at most one month is crossed
AddDays(d, n) ==
    LET day == d.day + n
    IN  IF day < 1
        THEN LET y == IF d.month = 1 THEN d.year - 1 ELSE d.year
                 m == IF d.month = 1 THEN 12 ELSE d.month - 1
             IN  [d EXCEPT !.year = y, !.month = m, !.day = day + DaysInMonth(y, m)]
        ELSE IF day > DaysInMonth(d.year, d.month)
        THEN LET y == IF d.month = 12 THEN d.year + 1 ELSE d.year
                 m == IF d.month = 12 THEN 1 ELSE d.month + 1
             IN  [d EXCEPT !.year = y, !.month = m, !.day = day - DaysInMonth(d.year, d.month)]
        ELSE [d EXCEPT !.day = day]

\* x < y for two datetimes
DateLess(x, y) ==
    \/ x.year < y.year
    \/ x.year = y.year /\ x.month < y.month
    \/ x.year = y.year /\ x.month = y.month /\ x.day < y.day
    \/ x.year = y.year /\ x.month = y.month /\ x.day = y.day /\ x.time < y.time

\* the ordinal of the Monday that starts ISO week 1 of year y
isoweek1monday(y) ==
    LET firstday == DaysBeforeYear(y) + 1
        firstweekday == (firstday + 6) % 7
        week1monday == firstday - firstweekday
    IN  IF firstweekday > 3 THEN week1monday + 7 ELSE week1monday

\* date.isocalendar(): the ISO year and the ISO week
isocalendar(d) ==
    LET today == toordinal(d)
        week == (today - isoweek1monday(d.year)) \div 7
    IN  IF today < isoweek1monday(d.year)
        THEN [year |-> d.year - 1,
              week |-> (today - isoweek1monday(d.year - 1)) \div 7 + 1]
        ELSE IF week >= 52 /\ today >= isoweek1monday(d.year + 1)
        THEN [year |-> d.year + 1, week |-> 1]
        ELSE [year |-> d.year, week |-> week + 1]

\* ------------------------------------------------------------------------
\* bugzilla.py, addons.py, sumo.py: get_period and the steps of main's loop
\* ------------------------------------------------------------------------
\* get_period(date) under the setting P of PERIOD; a year is <<year>>
get_period(P, d) ==
    IF P = 1 THEN <<isocalendar(d).year, isocalendar(d).week>>
    ELSE IF P = 2 THEN <<d.year, d.month>>
    ELSE IF P = 3 THEN <<d.year, (d.month - 1) \div 3>>
    ELSE IF P = 4 THEN <<d.year>>
    ELSE None

\* strftime's %G and %V: the year and the number of the ISO 8601 week,
\* those of the Thursday of the date's week
Thursday(d) == AddDays(d, 3 - weekday(d))
strftime_G(d) == Thursday(d).year
strftime_V(d) ==
    (DaysBeforeMonth(Thursday(d).year, Thursday(d).month) + Thursday(d).day - 1) \div 7 + 1

\* strftime's %B, the name of the month
MonthNames ==
    <<"January", "February", "March", "April", "May", "June", "July",
      "August", "September", "October", "November", "December">>

\* variant: the week label made with %Y, the calendar year
output_periodCalendarYear(P, d) ==
    IF P = 1 THEN <<"Week", strftime_V(d), d.year>>
    ELSE IF P = 2 THEN <<MonthNames[d.month], d.year>>
    ELSE IF P = 3 THEN <<"Quarter", (d.month - 1) \div 3 + 1, d.year>>
    ELSE IF P = 4 THEN <<d.year>>
    ELSE None

\* output_period(date) under the setting P of PERIOD: the label, as the
\* tuple of the words and numbers of the formatted string
output_period(P, d) ==
    IF P = 1 THEN <<"Week", strftime_V(d), strftime_G(d)>>
    ELSE IF P = 2 THEN <<MonthNames[d.month], d.year>>
    ELSE IF P = 3 THEN <<"Quarter", (d.month - 1) \div 3 + 1, d.year>>
    ELSE IF P = 4 THEN <<d.year>>
    ELSE None

\* crash_stats.py lines 219-239: end_date, the start of the period before
\* the one of now: the Monday of the week before, or the first day of the
\* month, quarter or year before
crash_stats_end_date(P, n) ==
    IF P = 1 THEN AddDays(datetime(n.year, n.month, n.day), 0 - (weekday(n) + 7))
    ELSE IF P = 2 THEN
        (IF n.month - 1 < 1 THEN datetime(n.year - 1, n.month - 1 + 12, 1)
         ELSE datetime(n.year, n.month - 1, 1))
    ELSE IF P = 3 THEN
        (IF n.month - ((n.month - 1) % 3) - 3 < 1
         THEN datetime(n.year - 1, n.month - ((n.month - 1) % 3) - 3 + 12, 1)
         ELSE datetime(n.year, n.month - ((n.month - 1) % 3) - 3, 1))
    ELSE datetime(n.year - 1, 1, 1)

\* lines 373-395: the year of the period before now
PreviousYear(P, n) ==
    IF P = 1 THEN
        (IF n.day - weekday(n) - 7 < 1 /\ n.month - 1 < 1 THEN n.year - 1 ELSE n.year)
    ELSE IF P = 2 THEN (IF n.month - 1 < 1 THEN n.year - 1 ELSE n.year)
    ELSE IF P = 3 THEN (IF n.month - 3 < 1 THEN n.year - 1 ELSE n.year)
    ELSE n.year - 1

\* the scripts whose main enumerates periods in this way; addons.py's lines
\* are those of bugzilla.py
Scripts == {"bugzilla", "sumo"}

\* the number of years the enumeration reaches back: 10 if PERIOD <= 2
\* else 20 in bugzilla.py and addons.py, 5 in sumo.py
YearsBack(sc, P) == IF sc = "sumo" THEN 5 ELSE IF P <= 2 THEN 10 ELSE 20

\* lines 397-401: 1 January of the first year and, for weeks,
\* start_date -= timedelta(6 - weekday) when weekday is not 0
StartDate(sc, P, y) ==
    LET first == datetime(y - YearsBack(sc, P), 1, 1)
    IN  IF P = 1 /\ weekday(first) # 0
        THEN AddDays(first, 0 - (6 - weekday(first)))
        ELSE first

\* variant: the carry past December takes 11 months off
NextDateCarryEleven(P, d) ==
    IF P = 1 THEN AddDays(d, 7)
    ELSE IF P = 2 THEN
        (IF d.month + 1 > 12
         THEN [d EXCEPT !.year = d.year + 1, !.month = d.month + 1 - 11]
         ELSE [d EXCEPT !.month = d.month + 1])
    ELSE IF P = 3 THEN
        (IF d.month + 3 > 12
         THEN [d EXCEPT !.year = d.year + 1, !.month = d.month + 3 - 11]
         ELSE [d EXCEPT !.month = d.month + 3])
    ELSE [d EXCEPT !.year = d.year + 1]

\* lines 408-426: the date that follows d in the loop
NextDate(P, d) ==
    IF P = 1 THEN AddDays(d, 7)
    ELSE IF P = 2 THEN
        (IF d.month + 1 > 12
         THEN [d EXCEPT !.year = d.year + 1, !.month = d.month + 1 - 12]
         ELSE [d EXCEPT !.month = d.month + 1])
    ELSE IF P = 3 THEN
        (IF d.month + 3 > 12
         THEN [d EXCEPT !.year = d.year + 1, !.month = d.month + 3 - 12]
         ELSE [d EXCEPT !.month = d.month + 3])
    ELSE [d EXCEPT !.year = d.year + 1]

\* ------------------------------------------------------------------------
\* addons.py: the version strings the model feeds to parse_version
\* ------------------------------------------------------------------------
Tokens ==
    {<<"0">>, <<"1">>, <<"9">>, <<".">>, <<"*">>, <<"a">>, <<"b">>, <<"p", "r", "e">>, <<"x">>}

\* every string made of at most n tokens
TokenStrings(n) == {Flatten(ts) : ts \in UNION {[1..k -> Tokens] : k \in 0..n}}

\* the strings named by the specification
ExampleStrings ==
    {<<"1", "1", "5", ".", "0">>,
     <<"1", "1", "5", ".", "*">>,
     <<"i", "n", "v", "a", "l", "i", "d">>,
     <<"1", "1", "6", ".", "0", "b", "2">>,
     <<"1", "1", "5", ".", "0", "x", "y", "z">>,
     <<"1", ".", "2", ".", "3", ".", "4", ".", "5">>,
     <<"1", "1", "5", ".", ".", "1">>,
     <<"1", "1", "5", ".", "1", "8", ".", "0">>}

VersionStrings == TokenStrings(MaxTokens) \cup ExampleStrings

\* the min and max strings of a compatibility range
RangeStrings ==
    {<<"1">>,
     <<"1", ".", "*">>,
     <<"1", "1", "5", ".", "0">>,
     <<"1", "1", "5", ".", "*">>,
     <<"1", "b", "1">>,
     <<"1", ".", "1", "p", "r", "e">>,
     <<"i", "n", "v", "a", "l", "i", "d">>}

\* ------------------------------------------------------------------------
\* Initial conditions
\* ------------------------------------------------------------------------
\* main is about to call by_level on a bug of the index
RollupStart ==
    /\ items \in Index
    /\ root_item \in Range(items)
    /\ key \in Keys
    \* main line 897: the votes rollup is only asked for a bug that has votes
    /\ key = "votes" => root_item.votes # 0
    /\ seen = {}
    /\ level = <<>>
    /\ levels = <<>>
    /\ next_level = <<>>
    /\ level_votes = <<>>
    /\ idx = 0
    /\ pc = "call"
    /\ total = 0

\* no rollup is going on
RollupIdle ==
    /\ items = <<>>
    /\ root_item = [id |-> DanglingId, votes |-> 0, duplicates |-> <<>>]
    /\ key = "votes"
    /\ seen = {}
    /\ level = <<>>
    /\ levels = <<>>
    /\ next_level = <<>>
    /\ level_votes = <<>>
    /\ idx = 0
    /\ pc = "idle"
    /\ total = 0

\* main has a target version string and an add-on's compatibility range
VersionStart ==
    /\ version \in VersionStrings
    /\ compat \in [min : RangeStrings, max : RangeStrings]
    /\ aversion = None
    /\ compatible = "unset"
    /\ vpc = "versions"

\* no version comparison is going on
VersionIdle ==
    /\ version = <<>>
    /\ compat = [min |-> <<>>, max |-> <<>>]
    /\ aversion = None
    /\ compatible = "unset"
    /\ vpc = "idle"

\* version terms of the crash reports: the strings fed to addons.py's
\* parser and three terms as Thunderbird reports them
CrashTerms ==
    VersionStrings \cup
        {<<"1", "1", "5", ".", "3", ".", "1", "e", "s", "r">>,
         <<"1", "2", "8", ".", "0", "a", "1">>,
         <<"1", "2", "8", ".", "0", "b", "3">>}

\* what output_verion returns when nothing has been returned yet
NoLabel == [kind |-> "unset", raw |-> <<>>, major |-> 0, release |-> "None"]

\* line 285: output_verion(version["term"]) is about to be called
CrashStart ==
    /\ term \in CrashTerms
    /\ crash_aversion = None
    /\ label = NoLabel
    /\ cpc = "call"

\* no crash signature is being labelled
CrashIdle ==
    /\ term = <<>>
    /\ crash_aversion = None
    /\ label = NoLabel
    /\ cpc = "idle"

\* the values of datetime.now(timezone.utc) that the model feeds to main
Nows ==
    {[year |-> y, month |-> m, day |-> d, time |-> t] :
        y \in FirstNowYear..(FirstNowYear + MaxNowYears - 1),
        m \in 1..12,
        d \in (1..MaxNowDay) \cup {28},
        t \in {0, 1}}

NoDate == datetime(1, 1, 1)

\* main is about to read the clock
PeriodStart ==
    /\ script \in Scripts
    /\ PERIOD \in 1..4
    /\ now \in Nows
    /\ year = 0
    /\ start_date = NoDate
    /\ date = NoDate
    /\ dates = <<>>
    /\ end_date = NoDate
    /\ crash_end_date = NoDate
    /\ ppc = "main"

\* no enumeration is going on
PeriodIdle ==
    /\ script = "bugzilla"
    /\ PERIOD = 3
    /\ now = NoDate
    /\ year = 0
    /\ start_date = NoDate
    /\ date = NoDate
    /\ dates = <<>>
    /\ end_date = NoDate
    /\ crash_end_date = NoDate
    /\ ppc = "idle"

\* ------------------------------------------------------------------------
\* The report scripts: dictionaries, Counter, mean and median
\* ------------------------------------------------------------------------

\* a dict is the sequence of its items [key, value] in insertion order
Has(d, k) == \E i \in DOMAIN d : d[i].key = k
At(d, k) == CHOOSE i \in DOMAIN d : d[i].key = k

\* d[k], for a key that d has
GetItem(d, k) == d[At(d, k)].value

\* d.get(k, default)
get(d, k, default) == IF Has(d, k) THEN GetItem(d, k) ELSE default

\* variant: the list under the key is replaced by [x]
setdefault_assign(d, k, x) ==
    IF Has(d, k) THEN [d EXCEPT ![At(d, k)].value = <<x>>]
    ELSE Append(d, [key |-> k, value |-> <<x>>])

\* d.setdefault(k, []).append(x)
setdefault_append(d, k, x) ==
    IF Has(d, k) THEN [d EXCEPT ![At(d, k)].value = Append(@, x)]
    ELSE Append(d, [key |-> k, value |-> <<x>>])

\* {k: [] for k in keys}
Prefilled(keys) == [i \in DOMAIN keys |-> [key |-> keys[i], value |-> <<>>]]

\* Counter: c[v] += 1, a new key is inserted last with the count 1
CounterAdd(c, v) ==
    IF Has(c, v) THEN [c EXCEPT ![At(c, v)].value = @ + 1]
    ELSE Append(c, [key |-> v, value |-> 1])

\* Counter(s): the values of s counted from left to right
RECURSIVE Counter(_)
Counter(s) ==
    IF s = <<>> THEN <<>>
    ELSE CounterAdd(Counter(SubSeq(s, 1, Len(s) - 1)), s[Len(s)])

\* variant: e goes in front of the items of the same count
InsertByCountBefore(s, e) ==
    SubSeq(s, 1, Cardinality({i \in DOMAIN s : s[i].value > e.value}))
        \o <<e>>
        \o SubSeq(s, Cardinality({i \in DOMAIN s : s[i].value > e.value}) + 1, Len(s))

\* one step of sorted(items, key=itemgetter(1), reverse=True), a stable sort:
\* e goes behind the items of s of the same or of a higher count
InsertByCount(s, e) ==
    SubSeq(s, 1, Cardinality({i \in DOMAIN s : s[i].value >= e.value}))
        \o <<e>>
        \o SubSeq(s, Cardinality({i \in DOMAIN s : s[i].value >= e.value}) + 1, Len(s))

\* Counter.most_common(): the items sorted by count, highest first
RECURSIVE most_common(_)
most_common(c) ==
    IF c = <<>> THEN <<>>
    ELSE InsertByCount(most_common(SubSeq(c, 1, Len(c) - 1)), c[Len(c)])

\* a timedelta is a fraction of whole days; timedelta() is zero
timedelta == [num |-> 0, den |-> 1]

\* closed_date - created_date in days
Delta(from, to) == toordinal(to) - toordinal(from)

\* sum(deltas, timedelta()) / len(deltas), for a list that is not empty
mean(deltas) == [num |-> SumSeq(deltas), den |-> Len(deltas)]

\* one step of sorted(data): x goes behind the values that are not greater
InsertSorted(s, x) ==
    SubSeq(s, 1, Cardinality({i \in DOMAIN s : s[i] <= x}))
        \o <<x>>
        \o SubSeq(s, Cardinality({i \in DOMAIN s : s[i] <= x}) + 1, Len(s))

RECURSIVE sorted(_)
sorted(s) ==
    IF s = <<>> THEN <<>>
    ELSE InsertSorted(sorted(SubSeq(s, 1, Len(s) - 1)), s[Len(s)])

\* the middle of data that is sorted and not empty
Middle(data) ==
    IF Len(data) % 2 = 1 THEN [num |-> data[Len(data) \div 2 + 1], den |-> 1]
    ELSE [num |-> data[Len(data) \div 2] + data[Len(data) \div 2 + 1], den |-> 2]

\* statistics.median(deltas), for a list that is not empty
median(deltas) == Middle(sorted(deltas))

\* the scripts whose reports are modelled
ReportScripts == {"bugzilla", "sumo", "addons", "github", "discourse", "pro_ideas"}

\* github.py and discourse.py key their buckets by (year, month); the other
\* scripts by get_period under PERIOD = 3
ReportPeriod(s) == IF s \in {"github", "discourse"} THEN 2 ELSE 3

\* main's dates: two consecutive periods
ReportDates(s) ==
    IF s \in {"github", "discourse"} THEN <<datetime(2024, 3, 1), datetime(2024, 4, 1)>>
    ELSE <<datetime(2024, 1, 1), datetime(2024, 4, 1)>>

\* the keys of main's dates
ReportKeys(s) == [i \in DOMAIN ReportDates(s) |-> get_period(ReportPeriod(s), ReportDates(s)[i])]

\* main's date, the time of the cached data
ReportNow == datetime(2024, 5, 1)

\* scripts that keep the closed records and their durations
KeepsClosed(s) == s \in {"bugzilla", "github"}

\* scripts that report the duration of the open records
KeepsOpen(s) == s \in {"bugzilla", "github", "pro_ideas"}

\* the record is open: bug["is_open"], not issue["closed_at"],
\* item["status"] != "closed"
IsOpen(r) == r.closed.year = 1

\* the dictionaries as main creates them
EmptyBuckets(s) ==
    IF s \in {"github", "pro_ideas"} THEN Prefilled(ReportKeys(s)) ELSE <<>>

\* the three stacked values of a bucket of questions or topics
answered_count(acreated) == Cardinality({i \in DOMAIN acreated : acreated[i].answered})
solved_count(acreated) == Cardinality({i \in DOMAIN acreated : acreated[i].solved})

\* variant: the answered value without the subtraction of the solved count
created_statusWhole(acreated) ==
    [Solved |-> solved_count(acreated),
     Answered |-> answered_count(acreated),
     Question |-> Len(acreated) - answered_count(acreated)]

created_status(acreated) ==
    [Solved |-> solved_count(acreated),
     Answered |-> answered_count(acreated) - solved_count(acreated),
     Question |-> Len(acreated) - answered_count(acreated)]

\* the values of a field of the records of a bucket
StatusOf(acreated) == [i \in DOMAIN acreated |-> acreated[i].status]

\* the statement of the report loop that reads a bucket raises KeyError
RaisesKeyError(s, cr, cl, k) ==
    \/ s \in {"bugzilla", "sumo"} /\ ~Has(cr, k)
    \/ s = "bugzilla" /\ ~Has(cl, k)

\* the bucket of the period as the report loop reads it
ACreated(s, cr, k) ==
    IF s \in {"addons", "discourse"} THEN get(cr, k, <<>>) ELSE GetItem(cr, k)

AClosed(s, cl, k) == IF KeepsClosed(s) THEN GetItem(cl, k) ELSE <<>>

\* mean and median of the durations of the period: bugzilla.py divides,
\* github.py gives timedelta() for an empty list
PeriodMean(s, deltas) ==
    IF s = "github" /\ deltas = <<>> THEN timedelta
    ELSE IF KeepsClosed(s) THEN mean(deltas)
    ELSE timedelta

PeriodMedian(s, deltas) ==
    IF s = "github" /\ deltas = <<>> THEN timedelta
    ELSE IF KeepsClosed(s) THEN median(deltas)
    ELSE timedelta

\* the row of one period; a script that keeps no closed records has no
\* closed count, mean and median, and only sumo.py and discourse.py have
\* the stacked values
Row(s, k, acreated, aclosed, deltas) ==
    [period |-> k,
     created_count |-> Len(acreated),
     closed_count |-> Len(aclosed),
     difference |-> Len(acreated) - Len(aclosed),
     mean |-> PeriodMean(s, deltas),
     median |-> PeriodMedian(s, deltas),
     counts |-> most_common(Counter(StatusOf(acreated))),
     status |-> created_status(acreated)]

\* the records of the cache: creation dates in the two periods, closing
\* dates not before the creation, two values of the counted field, and for
\* questions and topics the answered and the solved flag
CreatedDates == {datetime(2024, 3, 10), datetime(2024, 4, 20)}
ClosedDates == {datetime(2024, 3, 10), datetime(2024, 3, 25), datetime(2024, 4, 20)}
Statuses == {"a", "b"}

ClosingOf(s, c) ==
    IF KeepsClosed(s) THEN {NoDate} \cup {d \in ClosedDates : ~DateLess(d, c)}
    ELSE IF s = "pro_ideas" THEN {NoDate, c}
    ELSE {NoDate}

Flags(s) == IF s \in {"sumo", "discourse"} THEN BOOLEAN ELSE {FALSE}

Kinds(s) ==
    {[created |-> c, closed |-> x, status |-> st, answered |-> a, solved |-> so] :
        c \in CreatedDates, x \in ClosedDates \cup {NoDate}, st \in (IF s = "github" THEN {"a"} ELSE Statuses),
        a \in Flags(s), so \in Flags(s)}

RecordKinds(s) == {r \in Kinds(s) : r.closed \in ClosingOf(s, r.created)}

\* the records numbered by their position in the input
WithIds(f) ==
    [i \in DOMAIN f |->
        [id |-> i, created |-> f[i].created, closed |-> f[i].closed, status |-> f[i].status,
         answered |-> f[i].answered, solved |-> f[i].solved]]

RecordLists(s) == UNION {[1..n -> RecordKinds(s)] : n \in 0..MaxRecords}

ReportStart ==
    /\ report \in ReportScripts
    /\ records \in {WithIds(f) : f \in RecordLists(report)}
    /\ created = <<>>
    /\ closed = <<>>
    /\ closed_deltas = <<>>
    /\ open_deltas = <<>>
    /\ open_duration = [mean |-> timedelta, median |-> timedelta]
    /\ rec = 0
    /\ per = 0
    /\ rows = <<>>
    /\ mpc = "main"

ReportIdle ==
    /\ report = "bugzilla"
    /\ records = <<>>
    /\ created = <<>>
    /\ closed = <<>>
    /\ closed_deltas = <<>>
    /\ open_deltas = <<>>
    /\ open_duration = [mean |-> timedelta, median |-> timedelta]
    /\ rec = 0
    /\ per = 0
    /\ rows = <<>>
    /\ mpc = "idle"

\* the values of PERIOD: the four of the scripts and two that none of the
\* branches of get_period and output_period names
Selectors == 0..5

\* the dates given to get_period and output_period: the days around the turn
\* of each year and around the turn of a quarter
LabelYears == FirstLabelYear..(FirstLabelYear + MaxLabelYears - 1)
LabelDates ==
    {datetime(y, 12, d) : y \in LabelYears, d \in 27..31}
        \cup {datetime(y, 1, d) : y \in LabelYears, d \in 1..5}
        \cup {datetime(y, 3, 31) : y \in LabelYears}
        \cup {datetime(y, 4, 1) : y \in LabelYears}

LabelStart ==
    /\ selector \in Selectors
    /\ adate \in LabelDates
    /\ bdate \in LabelDates
    /\ akey = None
    /\ bkey = None
    /\ alabel = None
    /\ blabel = None
    /\ lpc = "call"

LabelIdle ==
    /\ selector = 2
    /\ adate = NoDate
    /\ bdate = NoDate
    /\ akey = None
    /\ bkey = None
    /\ alabel = None
    /\ blabel = None
    /\ lpc = "idle"

Init == RollupStart /\ VersionIdle /\ CrashIdle /\ PeriodIdle /\ LabelIdle /\ ReportIdle

\* lines 337-339: seen = set(); level = [...]; levels = []
Enter ==
    /\ pc = "call"
    /\ seen' = {}
    /\ level' = RootLevel
    /\ levels' = <<>>
    /\ pc' = "while"
    /\ UNCHANGED <<items, root_item, key, next_level, level_votes, idx, total, vvars, cvars, pvars, lvars, mvars>>

\* variant: the loop body is entered without the test of "while level"
WhileLevelAlways ==
    /\ pc = "while"
    /\ next_level' = <<>>
    /\ level_votes' = <<>>
    /\ idx' = 1
    /\ pc' = "for"
    /\ UNCHANGED <<items, root_item, key, seen, level, levels, total, vvars, cvars, pvars, lvars, mvars>>

\* lines 341-343: while level: next_level = []; level_votes = []
WhileLevel ==
    /\ pc = "while"
    /\ level # <<>>
    /\ next_level' = <<>>
    /\ level_votes' = <<>>
    /\ idx' = 1
    /\ pc' = "for"
    /\ UNCHANGED <<items, root_item, key, seen, level, levels, total, vvars, cvars, pvars, lvars, mvars>>

\* variant: the iteration without seen.add(aid)
ForAidNoAdd ==
    /\ pc = "for"
    /\ idx <= Len(level)
    /\ LET aid == level[idx] IN
        IF aid \notin DOMAIN items
        THEN /\ pc' = "KeyError"
             /\ UNCHANGED <<seen, level_votes, next_level, idx>>
        ELSE /\ seen' = seen
             /\ level_votes' = Append(level_votes, items[aid][key])
             /\ next_level' = next_level \o Unseen(items[aid].duplicates, seen')
             /\ idx' = idx + 1
             /\ pc' = "for"
    /\ UNCHANGED <<items, root_item, key, level, levels, total, vvars, cvars, pvars, lvars, mvars>>

\* variant: the iteration with next_level = [...] in place of next_level.extend(...)
ForAidAssign ==
    /\ pc = "for"
    /\ idx <= Len(level)
    /\ LET aid == level[idx] IN
        IF aid \notin DOMAIN items
        THEN /\ pc' = "KeyError"
             /\ UNCHANGED <<seen, level_votes, next_level, idx>>
        ELSE /\ seen' = seen \cup {aid}
             /\ level_votes' = Append(level_votes, items[aid][key])
             /\ next_level' = Unseen(items[aid].duplicates, seen')
             /\ idx' = idx + 1
             /\ pc' = "for"
    /\ UNCHANGED <<items, root_item, key, level, levels, total, vvars, cvars, pvars, lvars, mvars>>

\* lines 344-347: one iteration of "for aid in level"; items[aid] raises
\* KeyError when aid is no key of the index
ForAid ==
    /\ pc = "for"
    /\ idx <= Len(level)
    /\ LET aid == level[idx] IN
        IF aid \notin DOMAIN items
        THEN /\ pc' = "KeyError"
             /\ UNCHANGED <<seen, level_votes, next_level, idx>>
        ELSE /\ seen' = seen \cup {aid}
             /\ level_votes' = Append(level_votes, items[aid][key])
             /\ next_level' = next_level \o Unseen(items[aid].duplicates, seen')
             /\ idx' = idx + 1
             /\ pc' = "for"
    /\ UNCHANGED <<items, root_item, key, level, levels, total, vvars, cvars, pvars, lvars, mvars>>

\* lines 348-349: levels.append(level_votes); level = next_level
EndLevel ==
    /\ pc = "for"
    /\ idx > Len(level)
    /\ levels' = Append(levels, level_votes)
    /\ level' = next_level
    /\ pc' = "while"
    /\ UNCHANGED <<items, root_item, key, seen, next_level, level_votes, idx, total, vvars, cvars, pvars, lvars, mvars>>

\* line 351 and main line 902: return levels;
\* item["votes"] + sum(map(sum, votes))
Return ==
    /\ pc = "while"
    /\ level = <<>>
    /\ pc' = "done"
    /\ total' = IF key = "votes"
                THEN root_item.votes + SumSeq([i \in DOMAIN levels |-> SumSeq(levels[i])])
                ELSE total
    /\ UNCHANGED <<items, root_item, key, seen, level, levels, next_level, level_votes, idx, vvars, cvars, pvars, lvars, mvars>>

Next == Enter \/ WhileLevel \/ ForAid \/ EndLevel \/ Return

Spec == Init /\ [][Next]_vars

\* the loops of by_level are ordinary sequential code: a step that can be
\* taken is taken
FairSpec == Spec /\ WF_vars(Next)

\* ------------------------------------------------------------------------
\* addons.py main: the version comparison
\* ------------------------------------------------------------------------
\* lines 376-390 and 597: parse_version(version) of a target version
ParseTarget ==
    /\ vpc = "versions"
    /\ aversion' = parse_version(version)
    /\ vpc' = "addons"
    /\ UNCHANGED <<version, compat, compatible, rvars, cvars, pvars, lvars, mvars>>

\* lines 442-444: is_compatible(aversion, addon["current_version"]); a
\* TypeError is caught nowhere and ends the run
FilterAddons ==
    /\ vpc = "addons"
    /\ compatible' = is_compatible(aversion, compat)
    /\ vpc' = IF compatible' = "TypeError" THEN "TypeError" ELSE "done"
    /\ UNCHANGED <<version, compat, aversion, rvars, cvars, pvars, lvars, mvars>>

VersionInit == RollupIdle /\ VersionStart /\ CrashIdle /\ PeriodIdle /\ LabelIdle /\ ReportIdle

VersionNext == ParseTarget \/ FilterAddons

VersionSpec == VersionInit /\ [][VersionNext]_vars

\* ------------------------------------------------------------------------
\* crash_stats.py main: the version label of a crash signature
\* ------------------------------------------------------------------------
\* line 140: aversion = parse_version(version)
OutputVerionParse ==
    /\ cpc = "call"
    /\ crash_aversion' = crash_stats_parse_version(term)
    /\ cpc' = "parsed"
    /\ UNCHANGED <<term, label, rvars, vvars, pvars, lvars, mvars>>

\* lines 141-153: return version when the parse failed, else the major
\* number followed by the release, if any
OutputVerionReturn ==
    /\ cpc = "parsed"
    /\ label' = IF crash_aversion = None
                THEN [kind |-> "raw", raw |-> term, major |-> 0, release |-> "None"]
                ELSE [kind |-> "version", raw |-> <<>>, major |-> crash_aversion[1],
                      release |-> Release(term, crash_aversion)]
    /\ cpc' = "done"
    /\ UNCHANGED <<term, crash_aversion, rvars, vvars, pvars, lvars, mvars>>

CrashInit == RollupIdle /\ VersionIdle /\ CrashStart /\ PeriodIdle /\ LabelIdle /\ ReportIdle

CrashNext == OutputVerionParse \/ OutputVerionReturn

CrashSpec == CrashInit /\ [][CrashNext]_vars

\* ------------------------------------------------------------------------
\* bugzilla.py, addons.py, sumo.py main: the enumeration of the periods
\* ------------------------------------------------------------------------
\* lines 372-404: the year of the period before now, start_date, and the
\* loop's first date
SetStart ==
    /\ ppc = "main"
    /\ year' = PreviousYear(PERIOD, now)
    /\ start_date' = StartDate(script, PERIOD, year')
    /\ dates' = <<>>
    /\ date' = start_date'
    /\ ppc' = "while"
    /\ UNCHANGED <<script, PERIOD, now, end_date, crash_end_date, rvars, vvars, cvars, lvars, mvars>>

\* lines 405-426: one iteration of "while date < now"; the periods other
\* than weeks leave the year of the next date in year
WhileDate ==
    /\ ppc = "while"
    /\ DateLess(date, now)
    /\ dates' = Append(dates, date)
    /\ date' = NextDate(PERIOD, date)
    /\ year' = IF PERIOD = 1 THEN year ELSE date'.year
    /\ UNCHANGED <<script, PERIOD, now, start_date, end_date, ppc, crash_end_date, rvars, vvars, cvars, lvars, mvars>>

\* lines 428-429, the loop being over: dates.pop(); end_date = dates[-1];
\* both raise IndexError on an empty list
Pop ==
    /\ ppc = "while"
    /\ ~DateLess(date, now)
    /\ IF Len(dates) < 2
       THEN /\ ppc' = "IndexError"
            /\ dates' = <<>>
            /\ UNCHANGED end_date
       ELSE /\ dates' = SubSeq(dates, 1, Len(dates) - 1)
            /\ end_date' = dates'[Len(dates')]
            /\ ppc' = "done"
    /\ UNCHANGED <<script, PERIOD, now, year, start_date, date, crash_end_date, rvars, vvars, cvars, lvars, mvars>>

\* crash_stats.py lines 219-239, run at the same now with the same PERIOD,
\* once the enumerating script has its end_date
CrashEndDate ==
    /\ ppc = "done"
    /\ crash_end_date' = crash_stats_end_date(PERIOD, now)
    /\ ppc' = "compared"
    /\ UNCHANGED <<script, PERIOD, now, year, start_date, date, dates, end_date, rvars, vvars, cvars, lvars, mvars>>

PeriodInit == RollupIdle /\ VersionIdle /\ CrashIdle /\ PeriodStart /\ LabelIdle /\ ReportIdle

PeriodNext == SetStart \/ WhileDate \/ Pop \/ CrashEndDate

PeriodSpec == PeriodInit /\ [][PeriodNext]_vars

\* ------------------------------------------------------------------------
\* bugzilla.py, addons.py: get_period and output_period applied to two dates
\* ------------------------------------------------------------------------

\* bugzilla.py lines 82-92: get_period(date); every path returns a value
GetPeriod ==
    /\ lpc = "call"
    /\ akey' = get_period(selector, adate)
    /\ bkey' = get_period(selector, bdate)
    /\ lpc' = "keyed"
    /\ UNCHANGED <<selector, adate, bdate, alabel, blabel, rvars, vvars, cvars, pvars, mvars>>

\* bugzilla.py lines 95-104: output_period(date); every path returns a value
OutputPeriod ==
    /\ lpc = "keyed"
    /\ alabel' = output_period(selector, adate)
    /\ blabel' = output_period(selector, bdate)
    /\ lpc' = "labelled"
    /\ UNCHANGED <<selector, adate, bdate, akey, bkey, rvars, vvars, cvars, pvars, mvars>>

LabelInit == RollupIdle /\ VersionIdle /\ CrashIdle /\ PeriodIdle /\ LabelStart /\ ReportIdle

LabelNext == GetPeriod \/ OutputPeriod

LabelSpec == LabelInit /\ [][LabelNext]_vars

\* ------------------------------------------------------------------------
\* main of the report scripts: the buckets and the per-period rows
\* ------------------------------------------------------------------------
Others == <<rvars, vvars, cvars, pvars, lvars>>

\* bugzilla.py lines 559-566, github.py lines 457-473, pro_ideas.py line 294:
\* the dictionaries
Begin ==
    /\ mpc = "main"
    /\ created' = EmptyBuckets(report)
    /\ closed' = (IF report = "github" THEN EmptyBuckets(report) ELSE <<>>)
    /\ closed_deltas' = (IF report = "github" THEN EmptyBuckets(report) ELSE <<>>)
    /\ open_deltas' = <<>>
    /\ rec' = 1
    /\ mpc' = "records"
    /\ UNCHANGED <<report, records, open_duration, per, rows, Others>>

\* the key of the period of a date of a record
KeyOf(d) == get_period(ReportPeriod(report), d)

\* bugzilla.py lines 568-580, sumo.py lines 305-307, addons.py lines 535-537,
\* github.py lines 475-497, discourse.py lines 250-252, pro_ideas.py lines
\* 297-302: one iteration of the loop over the records
ForRecord ==
    /\ mpc = "records"
    /\ rec <= Len(records)
    /\ created' = setdefault_append(created, KeyOf(records[rec].created), records[rec])
    /\ IF KeepsOpen(report) /\ IsOpen(records[rec])
       THEN /\ open_deltas' = Append(open_deltas, Delta(records[rec].created, ReportNow))
            /\ UNCHANGED <<closed, closed_deltas>>
       ELSE IF KeepsClosed(report) /\ ~IsOpen(records[rec])
       THEN /\ closed' = setdefault_append(closed, KeyOf(records[rec].closed), records[rec])
            /\ closed_deltas' =
                   setdefault_append(closed_deltas, KeyOf(records[rec].closed),
                                     Delta(records[rec].created, records[rec].closed))
            /\ UNCHANGED open_deltas
       ELSE UNCHANGED <<closed, closed_deltas, open_deltas>>
    /\ rec' = rec + 1
    /\ UNCHANGED <<report, records, open_duration, per, rows, mpc, Others>>

\* the loop over the records ends
EndRecords ==
    /\ mpc = "records"
    /\ rec > Len(records)
    /\ mpc' = (IF KeepsOpen(report) THEN "open" ELSE "report")
    /\ per' = Len(ReportDates(report))
    /\ UNCHANGED <<report, records, created, closed, closed_deltas, open_deltas,
                   open_duration, rec, rows, Others>>

\* bugzilla.py lines 619-625, github.py lines 527-534, pro_ideas.py lines
\* 329-334: the share and the mean and median age of the open records
OpenDuration ==
    /\ mpc = "open"
    /\ IF open_deltas = <<>>
       THEN /\ mpc' = "ZeroDivisionError"
            /\ UNCHANGED open_duration
       ELSE /\ open_duration' = [mean |-> mean(open_deltas), median |-> median(open_deltas)]
            /\ mpc' = "report"
    /\ UNCHANGED <<report, records, created, closed, closed_deltas, open_deltas,
                   rec, per, rows, Others>>

\* bugzilla.py lines 719-758, sumo.py lines 319-347, addons.py lines 561-582,
\* github.py lines 618-697, discourse.py lines 266-295, pro_ideas.py lines
\* 346-363: one iteration of the loop over reversed(dates)
ForDate ==
    /\ mpc = "report"
    /\ per >= 1
    /\ IF RaisesKeyError(report, created, closed, ReportKeys(report)[per])
       THEN /\ mpc' = "KeyError"
            /\ UNCHANGED <<rows, per>>
       ELSE /\ rows' =
                Append(rows,
                    Row(report, ReportKeys(report)[per],
                        ACreated(report, created, ReportKeys(report)[per]),
                        AClosed(report, closed, ReportKeys(report)[per]),
                        AClosed(report, closed_deltas, ReportKeys(report)[per])))
            /\ per' = per - 1
            /\ UNCHANGED mpc
    /\ UNCHANGED <<report, records, created, closed, closed_deltas, open_deltas,
                   open_duration, rec, Others>>

\* the loop over the dates ends
EndDates ==
    /\ mpc = "report"
    /\ per = 0
    /\ mpc' = "done"
    /\ UNCHANGED <<report, records, created, closed, closed_deltas, open_deltas,
                   open_duration, rec, per, rows, Others>>

ReportInit ==
    RollupIdle /\ VersionIdle /\ CrashIdle /\ PeriodIdle /\ LabelIdle /\ ReportStart

ReportNext == Begin \/ ForRecord \/ EndRecords \/ OpenDuration \/ ForDate \/ EndDates

ReportSpec == ReportInit /\ [][ReportNext]_vars

\* ------------------------------------------------------------------------
\* Reference notions for the rollup properties
\* ------------------------------------------------------------------------
\* the values by_level has put into levels, in order (record ids when key = "id")
Returned == Flatten(levels)

\* indexed ids of a duplicates list
Indexed(dups) == Range(dups) \cap DOMAIN items

\* indexed records that the records of S list as duplicates
Succ(S) == UNION {Indexed(items[a].duplicates) : a \in S}

\* indexed records at the end of a path of k+1 duplicate links from the root
\* that passes through indexed records only
RECURSIVE PathEnds(_)
PathEnds(k) == IF k = 0 THEN Indexed(root_item.duplicates) ELSE Succ(PathEnds(k - 1))

\* a shortest path of one or more links has at most as many links as there are records
PathLengths(n) == {k + 1 : k \in {j \in 0..(Cardinality(DOMAIN items) - 1) : n \in PathEnds(j)}}
Reachable(n) == PathLengths(n) # {}
Min(S) == CHOOSE m \in S : \A o \in S : m <= o
Distance(n) == Min(PathLengths(n))

\* number (from 0) of the first level that holds n
LevelsWith(n) == {i \in DOMAIN levels : n \in Range(levels[i])}
FirstLevel(n) == Min(LevelsWith(n)) - 1

\* the rollup sum of main line 902 without the root's own votes
RollupSum == SumSeq([i \in DOMAIN levels |-> SumSeq(levels[i])])

\* ------------------------------------------------------------------------
\* C1: across all returned levels, by_level includes each record at most
\* once, also when the record is reachable from the root by two paths.
\* (Stated on the ids, that is for key = "id".)
\* ------------------------------------------------------------------------
C1_AtMostOnce ==
    (pc = "done" /\ key = "id") => \A n \in DOMAIN items : Count(Returned, n) <= 1

\* ------------------------------------------------------------------------
\* C2: by_level terminates on every finite index and root, cycles and
\* self-loops included: it never fails, it completes at most as many levels
\* as the index has records, and each level is a finite list that the for
\* loop walks through once, so the loop over levels reaches an empty level.
\* ------------------------------------------------------------------------
C2_Terminates ==
    /\ pc # "KeyError"
    /\ Len(levels) <= Cardinality(DOMAIN items)
    /\ pc = "for" => idx <= Len(level) + 1

\* by_level has returned for a root on a cycle and for a record that lists itself
C2_Witness ==
    /\ pc = "done"
    /\ root_item.id \in PathEnds(1)
    /\ \E a \in seen : a # root_item.id /\ a \in Indexed(items[a].duplicates)

\* the same as a temporal property, for the fair specification
C2_EventuallyDone == <>(pc = "done")

\* ------------------------------------------------------------------------
\* C3: the number of values by_level returns, summed over all levels, never
\* exceeds the number of records in the index.
\* ------------------------------------------------------------------------
C3_TotalBounded ==
    pc = "done" => Len(Returned) <= Cardinality(DOMAIN items)

\* ------------------------------------------------------------------------
\* C4: for a root A with duplicates [B], where B's duplicates are [A],
\* by_level terminates (after two levels) and its levels hold exactly one
\* value for B and exactly one value for A.
\* ------------------------------------------------------------------------
TwoCycle ==
    /\ Len(root_item.duplicates) = 1
    /\ root_item.duplicates[1] \in DOMAIN items
    /\ root_item.duplicates[1] # root_item.id
    /\ items[root_item.duplicates[1]].duplicates = <<root_item.id>>

C4_TwoCycle ==
    TwoCycle =>
        /\ pc # "KeyError"
        /\ Len(levels) <= 2
        /\ pc = "done" =>
            /\ Len(Returned) = 2
            /\ key = "id" =>
                /\ Count(Returned, root_item.id) = 1
                /\ Count(Returned, root_item.duplicates[1]) = 1

C4_Witness == TwoCycle /\ pc = "done" /\ key = "id" /\ Len(levels) = 2

\* ------------------------------------------------------------------------
\* C5: an id of a duplicates list that is no key of the index is never
\* looked up (no KeyError), contributes no value to any level, and the
\* other ids of its list are still processed.
\* ------------------------------------------------------------------------
C5_DanglingSkipped ==
    /\ pc # "KeyError"
    /\ Range(level) \cup Range(next_level) \subseteq DOMAIN items
    /\ key = "id" => Range(Returned) \cup Range(level_votes) \subseteq DOMAIN items
    /\ pc = "done" =>
        /\ Indexed(root_item.duplicates) \subseteq seen
        /\ \A a \in seen : Indexed(items[a].duplicates) \subseteq seen

\* by_level has returned values although the root's list starts with a missing
\* id and the list of a record of level 0 does too
C5_Witness ==
    /\ pc = "done"
    /\ Len(levels) >= 2
    /\ Len(root_item.duplicates) = 2
    /\ root_item.duplicates[1] \notin DOMAIN items
    /\ LET b == root_item.duplicates[2] IN
        /\ b \in seen
        /\ Len(items[b].duplicates) = 2
        /\ items[b].duplicates[1] \notin DOMAIN items
        /\ items[b].duplicates[2] \in seen \ {b}

\* ------------------------------------------------------------------------
\* C6: level 0 holds the root's direct duplicates that are in the index, in
\* list order; the first level in which a record appears is its distance
\* from the root (the length of the shortest path of one or more duplicate
\* links through indexed records) minus one; every indexed record reachable
\* from the root by such a path appears in some level.
\* ------------------------------------------------------------------------
C6_BreadthFirst ==
    (pc = "done" /\ key = "id") =>
        /\ levels # <<>> => levels[1] = SelectSeq(root_item.duplicates, InItems)
        /\ levels = <<>> => Indexed(root_item.duplicates) = {}
        /\ \A n \in DOMAIN items :
            /\ Reachable(n) <=> LevelsWith(n) # {}
            /\ Reachable(n) => FirstLevel(n) = Distance(n) - 1

\* three levels were returned, and a record at distance 2 is in two of them
C6_Witness ==
    /\ pc = "done"
    /\ key = "id"
    /\ Len(levels) = 3
    /\ \E n \in DOMAIN items :
        Reachable(n) /\ Distance(n) = 2 /\ Cardinality(LevelsWith(n)) >= 2

\* ------------------------------------------------------------------------
\* C7: for a root whose duplicates list is empty or holds only ids missing
\* from the index, by_level returns an empty list of levels, and the
\* caller's sum over the levels is 0.
\* ------------------------------------------------------------------------
C7_NoDuplicates ==
    Indexed(root_item.duplicates) = {} =>
        /\ pc # "KeyError"
        /\ pc # "for"
        /\ pc = "done" =>
            /\ levels = <<>>
            /\ RollupSum = 0
            /\ key = "votes" => total = root_item.votes

\* the votes rollup has returned for a root that lists only a missing bug
C7_Witness ==
    /\ pc = "done"
    /\ key = "votes"
    /\ root_item.duplicates = <<DanglingId>>
    /\ total = root_item.votes
    /\ total > 0

\* ------------------------------------------------------------------------
\* Reference notions for the version properties
\* ------------------------------------------------------------------------
AllDigits(t) == t # <<>> /\ \A i \in DOMAIN t : t[i] \in Digits

\* a number or the wildcard
IsPart(t) == t = <<"*">> \/ AllDigits(t)

\* one to n parts separated by dots
RECURSIVE IsCore(_, _)
IsCore(t, n) ==
    \/ IsPart(t)
    \/ /\ n > 1
       /\ \E i \in DOMAIN t :
            /\ t[i] = "."
            /\ IsPart(SubSeq(t, 1, i - 1))
            /\ IsCore(SubSeq(t, i + 1, Len(t)), n - 1)

\* nothing, or a or b and an optional number
IsAlphaBeta(t) == t = <<>> \/ (t[1] \in {"a", "b"} /\ \A i \in 2..Len(t) : t[i] \in Digits)

\* nothing, or pre and an optional digit
IsPre(t) ==
    \/ t = <<>>
    \/ t = <<"p", "r", "e">>
    \/ Len(t) = 4 /\ SubSeq(t, 1, 3) = <<"p", "r", "e">> /\ t[4] \in Digits

\* the whole string is major[.minor[.micro[.patch]]][ab[N]][pre[N]]
MatchesInFull(str) ==
    \E i \in 1..Len(str) : \E j \in i..Len(str) :
        /\ IsCore(SubSeq(str, 1, i), 4)
        /\ IsAlphaBeta(SubSeq(str, i + 1, j))
        /\ IsPre(SubSeq(str, j + 1, Len(str)))

\* ------------------------------------------------------------------------
\* C8: parse_version returns None for every string that does not match the
\* version grammar in full; it never returns a key derived from only a part
\* of the string.
\* ------------------------------------------------------------------------
C8_MalformedFails ==
    (vpc \in {"addons", "done", "TypeError"} /\ ~MatchesInFull(version)) => aversion = None

\* ------------------------------------------------------------------------
\* C9: is_compatible returns False and does not raise whenever the min or
\* the max string of the add-on version's compatibility fails to parse
\* (stated for a target version that did parse).
\* ------------------------------------------------------------------------
C9_BadBoundNotCompatible ==
    (/\ vpc \in {"done", "TypeError"}
     /\ aversion # None
     /\ parse_version(compat.min) = None \/ parse_version(compat.max) = None) =>
        /\ vpc # "TypeError"
        /\ vpc = "done" => compatible = "False"

\* ------------------------------------------------------------------------
\* C10: against the range min 115.0 / max 115.*, the targets 115.0, 115.*,
\* invalid and 116.0b2 yield True, True, False (or are left out) and False,
\* and no error is raised for the target that fails to parse.
\* ------------------------------------------------------------------------
C10_EndToEnd ==
    compat = [min |-> <<"1", "1", "5", ".", "0">>, max |-> <<"1", "1", "5", ".", "*">>] =>
        /\ version = <<"1", "1", "5", ".", "0">> =>
            vpc # "TypeError" /\ (vpc = "done" => compatible = "True")
        /\ version = <<"1", "1", "5", ".", "*">> =>
            vpc # "TypeError" /\ (vpc = "done" => compatible = "True")
        /\ version = <<"i", "n", "v", "a", "l", "i", "d">> =>
            vpc # "TypeError" /\ (vpc = "done" => compatible = "False")
        /\ version = <<"1", "1", "6", ".", "0", "b", "2">> =>
            vpc # "TypeError" /\ (vpc = "done" => compatible = "False")

\* ------------------------------------------------------------------------
\* The order of version keys, written down from its definition: fields are
\* compared left to right, numbers by value, the markers as the strings
\* "a" < "b" < "z" and "pre" < "z"
\* ------------------------------------------------------------------------
MarkerBefore == {<<"a", "b">>, <<"a", "z">>, <<"b", "z">>, <<"pre", "z">>}

FieldBefore(x, y, i) == IF i \in {5, 7} THEN <<x, y>> \in MarkerBefore ELSE x < y

RECURSIVE KeyLeqFrom(_, _, _)
KeyLeqFrom(x, y, i) ==
    IF i > 8 THEN TRUE
    ELSE IF x[i] = y[i] THEN KeyLeqFrom(x, y, i + 1)
    ELSE FieldBefore(x[i], y[i], i)

KeyLeq(x, y) == KeyLeqFrom(x, y, 1)

KeyLess(x, y) == x # y /\ KeyLeq(x, y)

\* ------------------------------------------------------------------------
\* C11: when the target and both bounds parse, is_compatible is true exactly
\* when min <= target <= max in the lexicographic order of the eight fields
\* (so it is true for a target between the bounds and false for a target
\* below the minimum), and it raises nothing.
\* ------------------------------------------------------------------------
C11_Parsed ==
    /\ vpc \in {"done", "TypeError"}
    /\ aversion # None
    /\ parse_version(compat.min) # None
    /\ parse_version(compat.max) # None

C11_ExactlyRange ==
    C11_Parsed =>
        /\ vpc = "done"
        /\ compatible = "True" <=>
                /\ KeyLeq(parse_version(compat.min), aversion)
                /\ KeyLeq(aversion, parse_version(compat.max))
        /\ compatible \in {"True", "False"}

\* a target with an alpha or beta marker strictly inside its range
C11_Witness ==
    /\ C11_Parsed
    /\ compatible = "True"
    /\ aversion[5] # "z"
    /\ KeyLess(parse_version(compat.min), aversion)
    /\ KeyLess(aversion, parse_version(compat.max))

\* ------------------------------------------------------------------------
\* C12: in each of the four numeric slots, the key with '*' in the slot is
\* strictly greater than the key of the same version with a concrete
\* integer in that slot, 65535 and larger integers included.
\* ------------------------------------------------------------------------
\* the target has been parsed
Parsed == vpc \in {"addons", "done", "TypeError"} /\ aversion # None

\* str with its i-th character replaced by the string d
ReplaceAt(str, i, d) == SubSeq(str, 1, i - 1) \o d \o SubSeq(str, i + 1, Len(str))

ConcreteParts ==
    {<<"0">>, <<"9">>,
     <<"6", "5", "5", "3", "4">>,
     <<"6", "5", "5", "3", "5">>,
     <<"6", "5", "5", "3", "6">>}

C12_StarAboveConcrete ==
    (Parsed /\ MatchesInFull(version)) =>
        \A i \in DOMAIN version :
            version[i] = "*" =>
                \A d \in ConcreteParts :
                    TupleLess(parse_version(ReplaceAt(version, i, d)), aversion)

\* ------------------------------------------------------------------------
\* C13: for every major M and every concrete minor, micro and patch below
\* 65535, the key of 'M.*' is greater than the key of 'M.minor.micro.patch'
\* and less than the key of '(M+1).0'; so '115.*' is above '115.99.0' and
\* below '116.0'.
\* ------------------------------------------------------------------------
\* the decimal numeral that follows the numeral str
RECURSIVE Incr(_)
Incr(str) ==
    IF str = <<>> THEN <<"1">>
    ELSE LET init == SubSeq(str, 1, Len(str) - 1)
             last == str[Len(str)]
         IN  IF last = "9" THEN Incr(init) \o <<"0">>
             ELSE init \o <<DigitChars[(CHOOSE i \in DOMAIN DigitChars : DigitChars[i] = last) + 1]>>

\* concrete parts below 65535
SmallParts == {<<"0">>, <<"9">>, <<"9", "9">>, <<"6", "5", "5", "3", "4">>}

\* version is 'M.*' for a numeral M
IsMajorStar ==
    /\ Len(version) >= 3
    /\ SubSeq(version, Len(version) - 1, Len(version)) = <<".", "*">>
    /\ AllDigits(SubSeq(version, 1, Len(version) - 2))

C13_StarBetween ==
    (Parsed /\ IsMajorStar) =>
        LET M == SubSeq(version, 1, Len(version) - 2) IN
            /\ \A minor \in SmallParts, micro \in SmallParts, patch \in SmallParts :
                    TupleLess(parse_version(M \o <<".">> \o minor \o <<".">> \o micro
                                            \o <<".">> \o patch),
                              aversion)
            /\ \A minor \in SmallParts :
                    TupleLess(parse_version(M \o <<".">> \o minor), aversion)
            /\ TupleLess(aversion, parse_version(Incr(M) \o <<".", "0">>))

\* '115.*' has been parsed and lies between '115.99.0' and '116.0'
C13_Witness ==
    /\ Parsed
    /\ version = <<"1", "1", "5", ".", "*">>
    /\ TupleLess(parse_version(<<"1", "1", "5", ".", "9", "9", ".", "0">>), aversion)
    /\ TupleLess(aversion, parse_version(Incr(<<"1", "1", "5">>) \o <<".", "0">>))

\* ------------------------------------------------------------------------
\* C14: for every core X and all numbers n and m, the key of X+'a'+n is
\* below the key of X+'b'+m, which is below the key of X; and the key of
\* X+'pre' is below the key of X.
\* ------------------------------------------------------------------------
MarkerNumbers == {<<"0">>, <<"2">>, <<"1", "0">>, <<"6", "5", "5", "3", "6">>}

C14_PrereleaseBelowFinal ==
    (Parsed /\ IsCore(version, 4)) =>
        /\ \A n \in MarkerNumbers, m \in MarkerNumbers :
                /\ TupleLess(parse_version(version \o <<"a">> \o n),
                             parse_version(version \o <<"b">> \o m))
                /\ TupleLess(parse_version(version \o <<"b">> \o m), aversion)
        /\ TupleLess(parse_version(version \o <<"p", "r", "e">>), aversion)

\* a core of several parts has been parsed, and its alpha with a larger
\* number is below its beta with a smaller one
C14_Witness ==
    /\ Parsed
    /\ IsCore(version, 4)
    /\ \E i \in DOMAIN version : version[i] = "."
    /\ TupleLess(parse_version(version \o <<"a", "1", "0">>),
                 parse_version(version \o <<"b", "2">>))
    /\ parse_version(version \o <<"p", "r", "e">>)[7] = "pre"

\* ------------------------------------------------------------------------
\* C15: 'pre' followed by an integer N sets pre_ver to N, for every N, those
\* of two or more digits included, so that 'pre9' sorts before 'pre10'.
\* ------------------------------------------------------------------------
\* version is head + 'pre' + N, 'pre' starting at position i, head being a
\* core with an optional alpha or beta part and N a numeral
IsPreNumberAt(i) ==
    /\ i > 1
    /\ i + 3 <= Len(version)
    /\ SubSeq(version, i, i + 2) = <<"p", "r", "e">>
    /\ "p" \notin Range(SubSeq(version, 1, i - 1))
    /\ MatchesInFull(SubSeq(version, 1, i - 1))
    /\ AllDigits(SubSeq(version, i + 3, Len(version)))

C15_PreNumber ==
    Parsed =>
        \A i \in DOMAIN version :
            IsPreNumberAt(i) =>
                /\ aversion[7] = "pre"
                /\ aversion[8] = int(SubSeq(version, i + 3, Len(version)))
                /\ version[Len(version)] = "9" /\ i + 3 = Len(version) =>
                        TupleLess(aversion,
                                  parse_version(SubSeq(version, 1, i + 2) \o <<"1", "0">>))

\* ------------------------------------------------------------------------
\* C16: for every number M the strings 'M', 'M.0', 'M.0.0' and 'M.0.0.0'
\* yield the same key.
\* ------------------------------------------------------------------------
C16_TrailingZeros ==
    (Parsed /\ AllDigits(version)) =>
        /\ parse_version(version \o <<".", "0">>) = aversion
        /\ parse_version(version \o <<".", "0", ".", "0">>) = aversion
        /\ parse_version(version \o <<".", "0", ".", "0", ".", "0">>) = aversion

\* a number of several digits has been parsed to the key of its 'M.0.0.0'
C16_Witness ==
    /\ Parsed
    /\ AllDigits(version)
    /\ Len(version) > 1
    /\ aversion = Version(int(version), 0, 0, 0, "z", 0, "z", 0)
    /\ parse_version(version \o <<".", "0", ".", "0", ".", "0">>) = aversion

\* ------------------------------------------------------------------------
\* C17: every key that addons.py's parse_version returns has alpha_beta in
\* {a, b, z} and pre in {pre, z}, z standing for an absent marker, so that
\* any two of its keys are comparable; every key that crash_stats.py's
\* parse_version returns has alpha_beta in {a, b, None} and pre in
\* {pre, None}, None standing for an absent marker (output_verion tests
\* the marker for truth and compares no keys).
\* ------------------------------------------------------------------------
\* output_verion has parsed a term that addons.py's parser accepts too
C17_BothParsed ==
    /\ cpc \in {"parsed", "done"}
    /\ crash_aversion # None
    /\ parse_version(term) # None

C17_Markers ==
    /\ cpc \in {"parsed", "done"} /\ parse_version(term) # None =>
            /\ parse_version(term)[5] \in {"a", "b", "z"}
            /\ parse_version(term)[7] \in {"pre", "z"}
    /\ cpc \in {"parsed", "done"} /\ crash_aversion # None =>
            /\ crash_aversion[5] \in {"a", "b", NoMarker}
            /\ crash_aversion[7] \in {"pre", NoMarker}

\* the statement with the sentinel z for both parsers
C17_MarkersBothZ ==
    /\ cpc \in {"parsed", "done"} /\ parse_version(term) # None =>
            /\ parse_version(term)[5] \in {"a", "b", "z"}
            /\ parse_version(term)[7] \in {"pre", "z"}
    /\ cpc \in {"parsed", "done"} /\ crash_aversion # None =>
            /\ crash_aversion[5] \in {"a", "b", "z"}
            /\ crash_aversion[7] \in {"pre", "z"}

\* a term with no marker has been parsed by output_verion and labelled
C17_Witness ==
    /\ cpc = "done"
    /\ C17_BothParsed
    /\ crash_aversion[5] = NoMarker
    /\ crash_aversion[7] = NoMarker
    /\ parse_version(term)[5] = "z"
    /\ mpc \in {"idle", "main", "records", "open", "report", "done", "KeyError", "ZeroDivisionError"}
    /\ report \in ReportScripts
    /\ label.release = "ESR"

\* ------------------------------------------------------------------------
\* Reference notions for the period properties
\* ------------------------------------------------------------------------
\* the number of ISO weeks of year y: 53 when 1 January is a Thursday, or a
\* Wednesday in a leap year, else 52
WeeksInYear(y) ==
    LET w == weekday(datetime(y, 1, 1))
    IN  IF w = 3 \/ (w = 2 /\ IsLeap(y)) THEN 53 ELSE 52

\* the key of the calendar period that follows the period of key k
NextPeriod(P, k) ==
    IF P = 1 THEN (IF k[2] < WeeksInYear(k[1]) THEN <<k[1], k[2] + 1>> ELSE <<k[1] + 1, 1>>)
    ELSE IF P = 2 THEN (IF k[2] < 12 THEN <<k[1], k[2] + 1>> ELSE <<k[1] + 1, 1>>)
    ELSE IF P = 3 THEN (IF k[2] < 3 THEN <<k[1], k[2] + 1>> ELSE <<k[1] + 1, 0>>)
    ELSE <<k[1] + 1>>

\* the number of months the loop adds for months and quarters
MonthStep == IF PERIOD = 2 THEN 1 ELSE 3

\* the loop has run at least twice: the last two dates appended
Last == dates[Len(dates)]
LastButOne == dates[Len(dates) - 1]

\* ------------------------------------------------------------------------
\* C18: for each granularity the list of dates built by the loop of main is
\* strictly increasing, the period keys of consecutive entries are
\* consecutive calendar periods (none skipped, none repeated), a step past
\* month 12 gives the month minus 12 of the following year, and every entry
\* has a month in 1..12, a quarter entry one in {1, 4, 7, 10}. Every
\* pair of consecutive entries is the last pair of the list in the state
\* that follows the append of its second entry.
\* ------------------------------------------------------------------------
C18_ConsecutivePeriods ==
    /\ Len(dates) >= 1 =>
            /\ Last.month \in 1..12
            /\ PERIOD = 3 => Last.month \in {1, 4, 7, 10}
    /\ Len(dates) >= 2 =>
            /\ DateLess(LastButOne, Last)
            /\ get_period(PERIOD, Last) = NextPeriod(PERIOD, get_period(PERIOD, LastButOne))
            /\ PERIOD \in {2, 3} /\ LastButOne.month + MonthStep > 12 =>
                    /\ Last.month = LastButOne.month + MonthStep - 12
                    /\ Last.year = LastButOne.year + 1
            /\ PERIOD \in {2, 3} /\ LastButOne.month + MonthStep <= 12 =>
                    /\ Last.month = LastButOne.month + MonthStep
                    /\ Last.year = LastButOne.year

\* the loop has stepped from December to January of the following year
C18_Witness ==
    /\ ppc = "while"
    /\ PERIOD = 2
    /\ Len(dates) >= 2
    /\ LastButOne.month = 12
    /\ Last.month = 1
    /\ Last.year = LastButOne.year + 1

\* ------------------------------------------------------------------------
\* C19: with PERIOD == 1 the start date is moved to the Monday of its ISO
\* week before the enumeration, whatever weekday 1 January falls on, and
\* every enumerated date is a Monday, 7 days after the previous one.
\* ------------------------------------------------------------------------
\* 1 January of the year the enumeration starts in (weeks leave year alone)
FirstOfYear == datetime(year - YearsBack(script, PERIOD), 1, 1)

C19_Mondays ==
    (PERIOD = 1 /\ ppc \in {"while", "done"}) =>
        /\ weekday(start_date) = 0
        /\ toordinal(start_date) = toordinal(FirstOfYear) - weekday(FirstOfYear)
        /\ Len(dates) >= 1 => weekday(Last) = 0
        /\ Len(dates) >= 2 => toordinal(Last) = toordinal(LastButOne) + 7

\* ------------------------------------------------------------------------
\* C20: for every granularity, when the loop of main is over, the period
\* key of the first date is the period key of 1 January of the start year,
\* and the period of the last date is the last period that begins before
\* now, the period of the last instant before now.
\* ------------------------------------------------------------------------
\* the loop is over and dates.pop() has not run yet
LoopOver == ppc = "while" /\ ~DateLess(date, now)

\* the day of the last instant before now
LastInstant == IF now.time > 0 THEN now ELSE AddDays(now, 0 - 1)

\* the year the enumeration starts in, for every granularity
StartYear == PreviousYear(PERIOD, now) - YearsBack(script, PERIOD)

C20_FirstAndLast ==
    LoopOver =>
        /\ dates # <<>>
        /\ get_period(PERIOD, dates[1]) = get_period(PERIOD, datetime(StartYear, 1, 1))
        /\ get_period(PERIOD, Last) = get_period(PERIOD, LastInstant)

\* ------------------------------------------------------------------------
\* C26: by_level never puts the root record's own value into a level, also
\* when the root is reachable from itself through a cycle of duplicates, so
\* that main's total, the root's votes plus the sum of all levels, counts
\* every record at most once. (The first part is stated on the ids.)
\* ------------------------------------------------------------------------
\* the votes of all records of the index, each counted once
AllVotes == SumSeq([i \in 1..MaxId |-> IF i \in DOMAIN items THEN items[i].votes ELSE 0])

C26_RootNotInLevels ==
    pc = "done" =>
        /\ key = "id" => Count(Returned, root_item.id) = 0
        /\ key = "votes" => total <= AllVotes

\* ------------------------------------------------------------------------
\* C27: after the loop and dates.pop(), end_date = dates[-1] is the start of
\* the most recent complete period, the period immediately before the one
\* that contains now, for every granularity and every now, a now on a
\* period boundary and, for weeks, a start date that is no Monday included.
\* ------------------------------------------------------------------------
\* d is the first instant of a period
IsPeriodStart(P, d) ==
    /\ d.time = 0
    /\ P = 1 => weekday(d) = 0
    /\ P \in {2, 3, 4} => d.day = 1
    /\ P = 3 => d.month \in {1, 4, 7, 10}
    /\ P = 4 => d.month = 1

C27_EndDate ==
    ppc = "done" =>
        /\ IsPeriodStart(PERIOD, end_date)
        /\ NextPeriod(PERIOD, get_period(PERIOD, end_date)) = get_period(PERIOD, now)

\* ------------------------------------------------------------------------
\* C28: for the same now and the same granularity, the end_date that
\* crash_stats.py computes directly denotes the same period as the end_date
\* that bugzilla.py, addons.py and sumo.py get by enumerating the period
\* starts and popping the last one.
\* ------------------------------------------------------------------------
C28_SameEndPeriod ==
    ppc = "compared" =>
        get_period(PERIOD, crash_end_date) = get_period(PERIOD, end_date)

\* ------------------------------------------------------------------------
\* Reference notions for the report properties
\* ------------------------------------------------------------------------
\* positions of the records created in, and closed in, the period of key k
CreatedIn(k) == {i \in DOMAIN records : KeyOf(records[i].created) = k}
ClosedIn(k) == {i \in DOMAIN records : ~IsOpen(records[i]) /\ KeyOf(records[i].closed) = k}

\* the key of the period of the i-th row: the rows follow reversed(dates)
RowKey(i) == ReportKeys(report)[Len(ReportDates(report)) - i + 1]

\* number of records the loop over the records has handled
Handled == IF mpc \in {"idle", "main"} THEN 0 ELSE rec - 1

\* the places <<bucket, position>> of created that hold the i-th record
Places(i) ==
    {p \in (DOMAIN created) \X (DOMAIN records) :
        /\ p[2] <= Len(created[p[1]].value)
        /\ created[p[1]].value[p[2]].id = i}

\* position of the first occurrence of v in s
FirstAt(s, v) == CHOOSE i \in DOMAIN s : s[i] = v /\ \A j \in 1..(i - 1) : s[j] # v

\* the values that the breakdown of the i-th row counts
Counted(i) == StatusOf(get(created, rows[i].period, <<>>))

\* every solved record of the bucket of the i-th row is answered
SolvedAreAnswered(i) ==
    \A j \in DOMAIN get(created, rows[i].period, <<>>) :
        get(created, rows[i].period, <<>>)[j].solved => get(created, rows[i].period, <<>>)[j].answered

\* ------------------------------------------------------------------------
\* C21: for every enumerated period, also one in which no record was created
\* or closed, the report loop of bugzilla.py, sumo.py and addons.py does not
\* fail and produces the created count, the closed count and their
\* difference (0 for an empty period), both series over all the periods
\* ------------------------------------------------------------------------
C21_EveryPeriodReported ==
    report \in {"bugzilla", "sumo", "addons"} =>
        /\ mpc # "KeyError"
        /\ mpc = "done" =>
            /\ Len(rows) = Len(ReportDates(report))
            /\ \A i \in DOMAIN rows :
                /\ rows[i].period = RowKey(i)
                /\ rows[i].created_count = Cardinality(CreatedIn(RowKey(i)))
                /\ report = "bugzilla" =>
                    /\ rows[i].closed_count = Cardinality(ClosedIn(RowKey(i)))
                    /\ rows[i].difference = rows[i].created_count - rows[i].closed_count

\* ------------------------------------------------------------------------
\* C22: a mean or median over an empty list of durations (no open record, or
\* a period without closed records) raises no division-by-zero, missing-key
\* or empty-sequence error, and its result is a "no data" value that is not
\* the zero duration
\* ------------------------------------------------------------------------
C22_EmptyDurations ==
    /\ mpc # "ZeroDivisionError"
    /\ ~(/\ mpc = "KeyError"
         /\ report = "bugzilla"
         /\ Has(created, ReportKeys(report)[per])
         /\ ~Has(closed_deltas, ReportKeys(report)[per]))
    /\ \A i \in DOMAIN rows :
        (KeepsClosed(report) /\ rows[i].closed_count = 0) =>
            /\ rows[i].mean # timedelta
            /\ rows[i].median # timedelta

\* ------------------------------------------------------------------------
\* C23: the bucketing by get_period of the creation date is a partition:
\* every record handled so far is in exactly one bucket, that of its period,
\* the sizes of the buckets sum to the number of records handled, and the
\* records of a bucket are in the order of the input
\* ------------------------------------------------------------------------
C23_Partition ==
    /\ \A i \in 1..Handled :
        /\ Cardinality(Places(i)) = 1
        /\ \A p \in Places(i) :
            /\ created[p[1]].key = KeyOf(records[i].created)
            /\ created[p[1]].value[p[2]] = records[i]
    /\ SumSeq([b \in DOMAIN created |-> Len(created[b].value)]) = Handled
    /\ \A b \in DOMAIN created :
        \A j, l \in DOMAIN created[b].value :
            j < l => created[b].value[j].id < created[b].value[l].id
    /\ \A b, c \in DOMAIN created : b # c => created[b].key # created[c].key

\* three records handled, two of them in one bucket and one in another
C23_Witness ==
    /\ Handled = 3
    /\ \E b, c \in DOMAIN created :
        /\ Len(created[b].value) = 2
        /\ Len(created[c].value) = 1

\* ------------------------------------------------------------------------
\* C24: the breakdown of a row, Counter.most_common over the values of the
\* bucket, has one item per value with its number of occurrences, highest
\* count first, and items of the same count in the order in which their
\* values first occur in the bucket
\* ------------------------------------------------------------------------
C24_MostCommon ==
    \A i \in DOMAIN rows :
        /\ {rows[i].counts[j].key : j \in DOMAIN rows[i].counts} = Range(Counted(i))
        /\ Len(rows[i].counts) = Cardinality(Range(Counted(i)))
        /\ \A j \in DOMAIN rows[i].counts :
            rows[i].counts[j].value = Count(Counted(i), rows[i].counts[j].key)
        /\ \A j, l \in DOMAIN rows[i].counts :
            j < l =>
                \/ rows[i].counts[j].value > rows[i].counts[l].value
                \/ /\ rows[i].counts[j].value = rows[i].counts[l].value
                   /\ FirstAt(Counted(i), rows[i].counts[j].key)
                          < FirstAt(Counted(i), rows[i].counts[l].key)

\* a row of bugzilla.py or addons.py with two values of the same count, "b"
\* first, and a row in which the value that occurs later is counted higher
C24_Witness ==
    /\ report \in {"bugzilla", "addons"}
    /\ \E i \in DOMAIN rows :
        \/ /\ Len(rows[i].counts) = 2
           /\ rows[i].counts[1].value = rows[i].counts[2].value
           /\ rows[i].counts[1].key = "b"
        \/ /\ Len(rows[i].counts) = 2
           /\ rows[i].counts[1].value = 2
           /\ Counted(i)[1] = rows[i].counts[2].key

\* ------------------------------------------------------------------------
\* C29: in every row of sumo.py and discourse.py the three stacked values
\* (Solved, Answered, Question or Topic) are non-negative and sum to the
\* size of the bucket.  As first stated, for every combination of the
\* answered and solved flags of the records:
\* ------------------------------------------------------------------------
C29_StackedValues ==
    report \in {"sumo", "discourse"} =>
        \A i \in DOMAIN rows :
            /\ rows[i].status.Solved >= 0
            /\ rows[i].status.Answered >= 0
            /\ rows[i].status.Question >= 0
            /\ rows[i].status.Solved + rows[i].status.Answered + rows[i].status.Question
                   = rows[i].created_count

\* C29 as amended: for every combination of the flags the three values sum
\* to the size of the bucket and Solved and Question are non-negative;
\* Answered is non-negative in every bucket whose solved records are all
\* answered
C29_StackedWhenSolvedAnswered ==
    report \in {"sumo", "discourse"} =>
        \A i \in DOMAIN rows :
            /\ rows[i].status.Solved >= 0
            /\ SolvedAreAnswered(i) => rows[i].status.Answered >= 0
            /\ rows[i].status.Question >= 0
            /\ rows[i].status.Solved + rows[i].status.Answered + rows[i].status.Question
                   = rows[i].created_count

\* a row over a bucket with a solved, an answered and an unanswered record
C29_Witness ==
    /\ report \in {"sumo", "discourse"}
    /\ \E i \in DOMAIN rows :
        /\ SolvedAreAnswered(i)
        /\ rows[i].status.Solved = 1
        /\ rows[i].status.Answered = 1
        /\ rows[i].status.Question = 1

\* ------------------------------------------------------------------------
\* C25: a value of PERIOD outside 1..4 is fatal: get_period and output_period
\* fail for it instead of returning a key or a label, so under such a value
\* neither call is ever left with a result and nothing can be bucketed
\* under a key made from it
\* ------------------------------------------------------------------------
C25_InvalidIsFatal == selector \notin 1..4 => lpc \notin {"keyed", "labelled"}

\* ------------------------------------------------------------------------
\* C30: under each of the four values of PERIOD get_period and output_period
\* agree on the identity of a period: two dates have the same key exactly
\* when they have the same label; the quarter key holds the index
\* (month - 1) // 3 in 0..3 and the label the index plus one; the week key
\* and the week label both hold the ISO year and the ISO week
\* ------------------------------------------------------------------------
C30_KeyAndLabelAgree ==
    (lpc = "labelled" /\ selector \in 1..4) =>
        /\ (akey = bkey) <=> (alabel = blabel)
        /\ selector = 3 =>
            /\ akey[2] = (adate.month - 1) \div 3
            /\ akey[2] \in 0..3
            /\ alabel[2] = akey[2] + 1
            /\ alabel[3] = akey[1]
        /\ selector = 1 =>
            /\ akey = <<isocalendar(adate).year, isocalendar(adate).week>>
            /\ alabel = <<"Week", akey[2], akey[1]>>

\* two dates of different calendar years in the same ISO week, and two
\* dates in weeks of the same number of different ISO years
C30_Witness ==
    /\ lpc = "labelled"
    /\ selector = 1
    /\ \/ adate.year # bdate.year /\ akey = bkey /\ alabel = blabel
       \/ akey[2] = bkey[2] /\ akey[1] # bkey[1] /\ alabel # blabel

\* ------------------------------------------------------------------------
\* Shape of the state
\* ------------------------------------------------------------------------
TypeOK ==
    /\ pc \in {"idle", "call", "while", "for", "done", "KeyError"}
    /\ vpc \in {"idle", "versions", "addons", "done", "TypeError"}
    /\ seen \subseteq Ids
    /\ compatible \in {"unset", "True", "False", "TypeError"}
    /\ cpc \in {"idle", "call", "parsed", "done"}
    /\ ppc \in {"idle", "main", "while", "done", "IndexError", "compared"}
    /\ PERIOD \in 1..4
    /\ selector \in Selectors
    /\ lpc \in {"idle", "call", "keyed", "labelled"}
    /\ label.release \in {"None", "Daily", "Beta", "ESR"}

====
